---- MODULE Spec2Model ----
(***************************************************************************)
(* open-repo-view (orv.py): the fetch -> aggregate -> persist -> export    *)
(* pipeline of fetch_daily, driven from the menu loop.                     *)
(*                                                                         *)
(* Days are day numbers (an ISO date string compares as its day number).   *)
(* A timestamp is <<day, time-of-day>>; timestamp[:10] keeps the day.      *)
(* The GitHub API is the environment: every HTTP response is chosen when   *)
(* the request is made.  An uncaught exception ends the process: nothing   *)
(* in orv.py catches one, so it unwinds through menu() to the top level.   *)
(* Menu choice 4 starts the Flask thread, whose request handler runs        *)
(* beside the main thread; it is a daemon thread and dies with the process.*)
(***************************************************************************)
EXTENDS Integers, Sequences, FiniteSets, TLC

(* ---------------- bounds of the model ---------------- *)
\* pipeline runs (menu choice 1) explored
MaxRuns == 2
\* days the clock may advance after the first run
MaxDays == 1
\* page requests one list_repos call may make
MaxRequests == 2

(* ---------------- program constants ---------------- *)
LOOKBACK == 14

None == "None"
FirstUrl == "page1"
Urls == {"page1", "page2"}
Kinds == <<"views", "clones">>
Header == <<"Date", "DayOfWeek", "Views", "UniqueViews", "Clones", "UniqueClones">>
\* drill keeps rows[:10]
TopN == 10
Popular == {"referrers", "paths"}

(* ---------------- the upstream API (environment) ---------------- *)
Statuses == {200, 403, 404, 500}

ev(d, c, u) == [timestamp |-> <<d, "T00:00:00Z">>, count |-> c, uniques |-> u]

\* The event lists a traffic endpoint may answer with in a run whose cutoff
\* is c: none, or three events, not in date order: one inside the window,
\* one a day too old, one on the cutoff day.
EventLists(c) ==
    { <<>>,
      <<ev(c + 1, 3, 2), ev(c - 1, 5, 3), ev(c, 2, 1)>> }

\* JSON bodies of /traffic/{kind}: the list sits under the key named as the kind.
Blobs(kind, c) == { [k \in {kind} |-> l] : l \in EventLists(c) }

ErrorBody == [k \in {"message"} |-> <<>>]

Responses(kind, c) ==
    { [status |-> 200, blob |-> b] : b \in Blobs(kind, c) }
        \cup { [status |-> s, blob |-> ErrorBody] : s \in Statuses \ {200} }

Other(kind) == IF kind = "views" THEN "clones" ELSE "views"

\* A payload that does not list the requested kind, or lists it empty, and
\* carries one event under the field of the other kind.
WideBlobs(kind, c) ==
    Blobs(kind, c)
        \cup { [k \in {Other(kind)} |-> <<ev(c + 1, 7, 4)>>],
               [k \in {kind, Other(kind)} |-> IF k = kind THEN <<>> ELSE <<ev(c + 1, 7, 4)>>] }

WideResponses(kind, c) ==
    { [status |-> 200, blob |-> b] : b \in WideBlobs(kind, c) }
        \cup { [status |-> s, blob |-> ErrorBody] : s \in Statuses \ {200} }

\* an entry of /traffic/popular/{which}: its referrer or path, count, uniques
hit(n, c, u) == [name |-> n, count |-> c, uniques |-> u]

\* JSON bodies of /traffic/popular/{which}: no entry, or three, two of them
\* with the same count and the first with a lower one
PopularBodies == { <<>>, << hit("x", 1, 1), hit("y", 3, 2), hit("z", 3, 1) >> }

PopularResponses ==
    { [status |-> 200, blob |-> b] : b \in PopularBodies }
        \cup { [status |-> s, blob |-> ErrorBody] : s \in Statuses \ {200} }

\* The owner's repositories in the order /user/repos lists them (by name).
Catalogue == <<"a", "f", "b">>

Rank(name) == CHOOSE i \in 1..Len(Catalogue) : Catalogue[i] = name

\* Pages of /user/repos: repository objects with a name and a fork flag.
PageBodies ==
    { <<>>,
      << [name |-> "a", fork |-> FALSE], [name |-> "f", fork |-> TRUE] >>,
      << [name |-> "b", fork |-> FALSE] >> }

VARIABLES
    pc,           \* where the main thread stands
    exc,          \* the exception that ended the process at pc, or None
    now,          \* the UTC clock, as a day number
    runs,         \* fetch_daily calls started so far
    cutoff,       \* fetch_daily: cutoff
    totals,       \* fetch_daily: totals, a dict in insertion order
    repos,        \* fetch_daily: repos
    ri,           \* fetch_daily: index of the repository of the outer loop
    ki,           \* fetch_daily: index of the kind of the inner loop
    fetched,      \* the traffic responses the aggregation loop under way has received
    pi,           \* fetch_daily: index of the totals item being upserted
    url,          \* list_repos: url
    out,          \* list_repos: out
    visited,      \* the page requests made by this list_repos call, in order
    tableExists,  \* traffic.db: whether table traffic exists
    traffic,      \* traffic.db: the rows of table traffic
    csv,          \* github_traffic.csv: its rows, None while the file is absent
    serving,      \* whether the dashboard thread has been started
    drilled       \* the drill call made last, if any: its response and what came of it

vars == << pc, exc, now, runs, cutoff, totals, repos, ri, ki, fetched, pi,
           url, out, visited, tableExists, traffic, csv, serving, drilled >>

\* the locals of list_repos, the loop state of fetch_daily, the files
listVars == << url, out, visited >>
loopVars == << ri, ki, fetched >>
files == << tableExists, traffic, csv >>
menuVars == << serving, drilled >>

(* ---------------- helpers ---------------- *)
Last(s) == s[Len(s)]

RECURSIVE SeqToSet(_)
SeqToSet(s) == IF s = <<>> THEN {} ELSE {Head(s)} \cup SeqToSet(Tail(s))

RECURSIVE NonForks(_)
\* [repo["name"] for repo in r.json() if not repo.get("fork")]
NonForks(page) ==
    IF page = <<>> THEN <<>>
    ELSE IF Head(page).fork THEN NonForks(Tail(page))
         ELSE <<Head(page).name>> \o NonForks(Tail(page))

(* ---------------- _get ---------------- *)
\* _get without its 404 branch: a 404 reaches raise_for_status
getNo404(r) ==
    IF r.status = 403 THEN "none"
    ELSE IF r.status >= 400 THEN "raise"
    ELSE "ok"

\* The outcome of _get for a response: None, an HTTPError, or the response.
\* On a 403 it reads r.json()["message"] for the diagnostic: GitHub answers
\* every error with a JSON object, so that read does not fail.
get(r) ==
    IF r.status = 403 THEN "none"
    ELSE IF r.status = 404 THEN "none"
    ELSE IF r.status >= 400 THEN "raise"
    ELSE "ok"

(* ---------------- fetch_traffic ---------------- *)
\* dict.get: a missing key and an empty list are both falsy
BlobGet(blob, key) == IF key \in DOMAIN blob THEN blob[key] ELSE <<>>

Or(a, b) == IF a # <<>> THEN a ELSE b

\* The value fetch_traffic returns when _get does not raise.
fetch_traffic(kind, r) ==
    IF get(r) = "none" THEN <<>>
    ELSE Or(BlobGet(r.blob, kind),
            Or(BlobGet(r.blob, "views"), Or(BlobGet(r.blob, "clones"), <<>>)))

(* ---------------- the aggregation loop of fetch_daily ---------------- *)
\* e["timestamp"][:10]
Day(ts) == ts[1]

\* the retention test with <= for <: the cutoff day itself is dropped
DiscardInclusive(day, c) == day <= c

\* the retention test one day late: the day before the cutoff is kept
DiscardLate(day, c) == day < c - 1

\* if day < cutoff: continue
Discard(day, c) == day < c

ZeroBucket(day) ==
    [day |-> day, views |-> 0, unique_views |-> 0, clones |-> 0, unique_clones |-> 0]

HasDay(tot, day) == \E i \in 1..Len(tot) : tot[i].day = day

IndexOf(tot, day) == CHOOSE i \in 1..Len(tot) : tot[i].day = day

\* totals[day] bound to a new bucket on every touch, not only on the first
TouchFresh(tot, day) ==
    IF HasDay(tot, day)
    THEN [tot EXCEPT ![IndexOf(tot, day)] = ZeroBucket(day)]
    ELSE Append(tot, ZeroBucket(day))

\* t = totals[day] on the defaultdict: the bucket springs up on first touch
Touch(tot, day) == IF HasDay(tot, day) THEN tot ELSE Append(tot, ZeroBucket(day))

\* = written for +=
AddAssign(t, kind, e) ==
    IF kind = "views"
    THEN [t EXCEPT !.views = e.count, !.unique_views = e.uniques]
    ELSE [t EXCEPT !.clones = e.count, !.unique_clones = e.uniques]

\* -= written for +=
AddSubtract(t, kind, e) ==
    IF kind = "views"
    THEN [t EXCEPT !.views = @ - e.count, !.unique_views = @ - e.uniques]
    ELSE [t EXCEPT !.clones = @ - e.count, !.unique_clones = @ - e.uniques]

\* the += statements of one event
Add(t, kind, e) ==
    IF kind = "views"
    THEN [t EXCEPT !.views = @ + e.count, !.unique_views = @ + e.uniques]
    ELSE [t EXCEPT !.clones = @ + e.count, !.unique_clones = @ + e.uniques]

\* the body of "for e in fetch_traffic(kind, repo)"
AddEvent(tot, kind, e, c) ==
    LET day == Day(e.timestamp) IN
    IF Discard(day, c) THEN tot
    ELSE LET t == Touch(tot, day) IN
         [t EXCEPT ![IndexOf(t, day)] = Add(@, kind, e)]

RECURSIVE FoldEvents(_, _, _, _)
FoldEvents(tot, kind, events, c) ==
    IF events = <<>> THEN tot
    ELSE FoldEvents(AddEvent(tot, kind, Head(events), c), kind, Tail(events), c)

\* the loop "for e in fetch_traffic(kind, repo)" on the totals so far
Accumulate(tot, kind, events, c) == FoldEvents(tot, kind, events, c)

(* ---------------- init_db, upsert ---------------- *)
\* CREATE TABLE IF NOT EXISTS traffic
init_db(exists) == TRUE

Row(d, s) ==
    [date |-> d, views |-> s.views, unique_views |-> s.unique_views,
     clones |-> s.clones, unique_clones |-> s.unique_clones]

\* ON CONFLICT DO UPDATE SET views = views + excluded.views, ...
upsertAdd(rows, d, s) ==
    IF \E r \in rows : r.date = d
    THEN { IF r.date = d
           THEN [r EXCEPT !.views = @ + s.views, !.unique_views = @ + s.unique_views,
                          !.clones = @ + s.clones, !.unique_clones = @ + s.unique_clones]
           ELSE r : r \in rows }
    ELSE rows \cup {Row(d, s)}

\* a plain INSERT into a table whose date column is no key
upsertNoKey(rows, d, s) == rows \cup {Row(d, s)}

\* the table emptied before the row is written
upsertTruncate(rows, d, s) == {Row(d, s)}

\* ON CONFLICT DO UPDATE SET views, unique_views only: the clones columns
\* are left to a statement of their own
upsertViewsOnly(rows, d, s) ==
    IF \E r \in rows : r.date = d
    THEN { IF r.date = d
           THEN [r EXCEPT !.views = s.views, !.unique_views = s.unique_views]
           ELSE r : r \in rows }
    ELSE rows \cup {Row(d, s)}

\* INSERT ... ON CONFLICT(date) DO UPDATE SET the four columns
upsert(rows, d, s) ==
    IF \E r \in rows : r.date = d
    THEN { IF r.date = d THEN Row(d, s) ELSE r : r \in rows }
    ELSE rows \cup {Row(d, s)}

(* ---------------- write_csv ---------------- *)
\* datetime.fromisoformat(d).strftime("%a")
DayOfWeek(d) == d % 7

CsvRow(s) == << s.day, DayOfWeek(s.day), s.views, s.unique_views, s.clones, s.unique_clones >>

RECURSIVE SortedDays(_)
\* sorted(totals)
SortedDays(days) ==
    IF days = {} THEN <<>>
    ELSE LET m == CHOOSE d \in days : \A x \in days : d <= x
         IN <<m>> \o SortedDays(days \ {m})

RECURSIVE CsvRows(_, _)
CsvRows(tot, days) ==
    IF days = <<>> THEN <<>>
    ELSE <<CsvRow(tot[IndexOf(tot, Head(days))])>> \o CsvRows(tot, Tail(days))

\* the file opened with "a" for "w": rows are added to the export on disk
write_csvAppend(tot) ==
    (IF csv = None THEN <<Header>> ELSE csv)
        \o CsvRows(tot, SortedDays({ tot[i].day : i \in 1..Len(tot) }))

\* the file is opened with "w": what it held is gone
write_csv(tot) ==
    <<Header>> \o CsvRows(tot, SortedDays({ tot[i].day : i \in 1..Len(tot) }))

(* ---------------- print_report ---------------- *)
\* max(summary.items(), ...) raises ValueError on an empty summary
print_report(summary) == IF summary = <<>> THEN "raise" ELSE "ok"

(* ---------------- the state machine ---------------- *)
Init ==
    /\ pc = "menu"
    /\ exc = None
    /\ now = LOOKBACK + 1
    /\ runs = 0
    /\ cutoff = 0
    /\ totals = <<>>
    /\ repos = <<>>
    /\ ri = 1
    /\ ki = 1
    /\ fetched = <<>>
    /\ pi = 1
    /\ url = None
    /\ out = <<>>
    /\ visited = <<>>
    /\ tableExists = FALSE
    /\ traffic = {}
    /\ csv = None
    /\ serving = FALSE
    /\ drilled = <<>>

\* The clock passes midnight.  fetch_daily reads the clock once, on entry,
\* so only the ticks between two runs are told apart.
AdvanceDay ==
    /\ pc = "menu" /\ exc = None
    /\ runs >= 1
    /\ now < LOOKBACK + 1 + MaxDays
    /\ now' = now + 1
    /\ UNCHANGED << pc, exc, runs, cutoff, totals, repos, pi, loopVars, listVars, files >>
    /\ UNCHANGED menuVars

\* menu choice 1: fetch_daily up to the first request of list_repos
FetchDailyStart ==
    /\ pc = "menu" /\ exc = None
    /\ runs < MaxRuns
    /\ runs' = runs + 1
    /\ cutoff' = now - LOOKBACK
    /\ totals' = <<>>
    /\ url' = FirstUrl
    /\ out' = <<>>
    /\ visited' = <<>>
    /\ pc' = "list"
    /\ UNCHANGED << exc, now, repos, pi, loopVars, files >>
    /\ UNCHANGED menuVars

\* list_repos: one pass of the while loop, its page request included
ListReposRequest ==
    /\ pc = "list" /\ exc = None
    /\ url # None
    /\ \E s \in Statuses, body \in PageBodies, next \in Urls \cup {None} :
         LET r == [status |-> s] IN
         \* the listing is in name order: a page holds later names than the
         \* pages before it, so no name comes twice
         /\ \A x \in SeqToSet(NonForks(body)), y \in SeqToSet(out) : Rank(y) < Rank(x)
         \* the listing is finite: its last page carries no next link
         /\ Len(visited) + 1 >= MaxRequests => next = None
         /\ visited' = Append(visited, [url |-> url, status |-> s])
         /\ CASE get(r) = "raise" ->
                   /\ exc' = "HTTPError"
                   /\ UNCHANGED << pc, url, out >>
              [] get(r) = "none" ->
                   /\ pc' = "list_return"
                   /\ UNCHANGED << exc, url, out >>
              [] OTHER ->
                   /\ out' = out \o NonForks(body)
                   /\ url' = next
                   /\ UNCHANGED << pc, exc >>
    /\ UNCHANGED << now, runs, cutoff, totals, repos, pi, loopVars, files >>
    /\ UNCHANGED menuVars

\* list_repos returns out (the loop ended or broke); fetch_daily binds repos
ListReposReturn ==
    /\ exc = None
    /\ \/ pc = "list_return"
       \/ pc = "list" /\ url = None
    /\ repos' = out
    /\ url' = None
    /\ out' = <<>>
    /\ visited' = <<>>
    /\ ri' = 1
    /\ ki' = 1
    /\ fetched' = <<>>
    /\ pc' = IF out = <<>> THEN "init_db" ELSE "fetch"
    /\ UNCHANGED << exc, now, runs, cutoff, totals, pi, files >>
    /\ UNCHANGED menuVars

\* one fetch_traffic(kind, repo) call, answered by one of the responses rs,
\* and the loop over its events
FetchPayload(rs) ==
    /\ pc = "fetch" /\ exc = None
    /\ \E r \in rs :
         /\ fetched' = Append(fetched, [repo |-> repos[ri], kind |-> Kinds[ki],
                                        status |-> r.status, blob |-> r.blob])
         /\ IF get(r) = "raise"
            THEN /\ exc' = "HTTPError"
                 /\ UNCHANGED << pc, totals, ri, ki >>
            ELSE /\ totals' = Accumulate(totals, Kinds[ki], fetch_traffic(Kinds[ki], r), cutoff)
                 /\ ki' = IF ki = Len(Kinds) THEN 1 ELSE ki + 1
                 /\ ri' = IF ki = Len(Kinds) THEN ri + 1 ELSE ri
                 /\ pc' = IF ki = Len(Kinds) /\ ri = Len(repos) THEN "init_db" ELSE "fetch"
                 /\ UNCHANGED exc
    /\ UNCHANGED << now, runs, cutoff, repos, pi, listVars >>
    /\ UNCHANGED menuVars

FetchTraffic == FetchPayload(Responses(Kinds[ki], cutoff))

\* each bucket written to the table as soon as the loop has added to it
FetchStepEarlyWrite ==
    /\ FetchTraffic
    /\ traffic' = IF exc' = None /\ totals' # <<>>
                  THEN upsert(traffic, Last(totals').day, Last(totals'))
                  ELSE traffic
    /\ UNCHANGED << tableExists, csv >>

\* fetch_daily: one pass of the nested loops; neither file is touched in them
FetchStep ==
    /\ FetchTraffic
    /\ UNCHANGED files

\* conn = init_db(); the loop is left and its responses are not kept
InitDb ==
    /\ pc = "init_db" /\ exc = None
    /\ tableExists' = init_db(tableExists)
    /\ pi' = 1
    /\ fetched' = <<>>
    /\ pc' = IF totals = <<>> THEN "write_csv" ELSE "upsert"
    /\ UNCHANGED << exc, now, runs, cutoff, totals, repos, ri, ki, listVars, traffic, csv >>
    /\ UNCHANGED menuVars

\* for d, stat in totals.items(): upsert(conn, d, stat), one commit each
UpsertStep ==
    /\ pc = "upsert" /\ exc = None
    /\ traffic' = upsert(traffic, totals[pi].day, totals[pi])
    /\ pi' = pi + 1
    /\ pc' = IF pi = Len(totals) THEN "write_csv" ELSE "upsert"
    /\ UNCHANGED << exc, now, runs, cutoff, totals, repos, loopVars, listVars, tableExists, csv >>
    /\ UNCHANGED menuVars

\* write_csv(totals)
WriteCsv ==
    /\ pc = "write_csv" /\ exc = None
    /\ csv' = write_csv(totals)
    /\ pc' = "print_report"
    /\ UNCHANGED << exc, now, runs, cutoff, totals, repos, pi, loopVars, listVars,
                    tableExists, traffic >>
    /\ UNCHANGED menuVars

\* print_report(totals): max() of an empty dict raises ValueError; otherwise
\* fetch_daily returns to the menu and its locals are gone
PrintReport ==
    /\ pc = "print_report" /\ exc = None
    /\ IF print_report(totals) = "raise"
       THEN /\ exc' = "ValueError"
            /\ UNCHANGED << pc, cutoff, totals, repos, pi, loopVars >>
       ELSE /\ pc' = "menu"
            /\ cutoff' = 0
            /\ totals' = <<>>
            /\ repos' = <<>>
            /\ ri' = 1
            /\ ki' = 1
            /\ fetched' = <<>>
            /\ pi' = 1
            /\ UNCHANGED exc
    /\ UNCHANGED << now, runs, listVars, files >>
    /\ UNCHANGED menuVars

\* fetch_daily in front of an API whose payloads may carry the other field
FetchStepWide ==
    /\ FetchPayload(WideResponses(Kinds[ki], cutoff))
    /\ UNCHANGED files

pipeVars == << pc, now, runs, cutoff, totals, repos, pi, loopVars, listVars >>

\* menu choice 4: threading.Thread(target=launch_dashboard, daemon=True).start()
LaunchDashboard ==
    /\ pc = "menu" /\ exc = None
    /\ serving' = TRUE
    /\ UNCHANGED << exc, pipeVars, files, drilled >>

\* SELECT date, views, clones FROM traffic ORDER BY date
RECURSIVE dashboard(_)
dashboard(rows) ==
    IF rows = {} THEN <<>>
    ELSE LET m == CHOOSE r \in rows : \A x \in rows : r.date <= x.date
         IN << <<m.date, m.views, m.clones>> >> \o dashboard(rows \ {m})

\* GET / in the Flask thread: init_db() on a connection of its own, then the
\* SELECT.  The thread lives while the process does.
Dashboard ==
    /\ serving
    /\ exc = None /\ pc # "quit"
    /\ tableExists' = init_db(tableExists)
    /\ UNCHANGED << exc, pipeVars, traffic, csv, menuVars >>

\* What drill(which) comes to for the response r of its request: the
\* exception it ends with, if any, and the rows it goes on with.  _get
\* raises; or returns None, and (None or [])[:10] is []: "No data"; or
\* returns the Response, which is truthy and which [:10] cannot subscript.
drill(which, r) ==
    IF get(r) = "raise" THEN [exc |-> "HTTPError", rows |-> <<>>]
    ELSE IF get(r) = "none" THEN [exc |-> None, rows |-> <<>>]
    ELSE [exc |-> "TypeError", rows |-> <<>>]

\* menu choices 2 and 3: drill("referrers"), drill("paths")
Drill ==
    /\ pc = "menu" /\ exc = None
    /\ \E which \in Popular, r \in PopularResponses :
         /\ drilled' = << [which |-> which, status |-> r.status, blob |-> r.blob,
                           result |-> drill(which, r)] >>
         /\ exc' = drill(which, r).exc
    /\ UNCHANGED << pipeVars, files, serving >>

\* menu choice 5: _get(f"{API}/rate_limit"), its result dropped
RateLimit ==
    /\ pc = "menu" /\ exc = None
    /\ \E s \in Statuses :
         exc' = IF get([status |-> s]) = "raise" THEN "HTTPError" ELSE None
    /\ UNCHANGED << pipeVars, files, menuVars >>

\* menu choice 6: break
Quit ==
    /\ pc = "menu" /\ exc = None
    /\ pc' = "quit"
    /\ UNCHANGED << exc, now, runs, cutoff, totals, repos, pi, loopVars, listVars,
                    files, menuVars >>

Next ==
    \/ AdvanceDay
    \/ FetchDailyStart
    \/ ListReposRequest
    \/ ListReposReturn
    \/ FetchStep
    \/ InitDb
    \/ UpsertStep
    \/ WriteCsv
    \/ PrintReport

Spec == Init /\ [][Next]_vars

\* the pipeline with the dashboard thread beside it
NextDashboard ==
    \/ Next
    \/ LaunchDashboard
    \/ Dashboard

SpecDashboard == Init /\ [][NextDashboard]_vars

\* the main thread with every choice of the menu but the dashboard
NextMenu ==
    \/ Next
    \/ Drill
    \/ RateLimit
    \/ Quit

SpecMenu == Init /\ [][NextMenu]_vars

\* the pipeline in front of payloads that carry the other kind's field
NextPayloads ==
    \/ AdvanceDay
    \/ FetchDailyStart
    \/ ListReposRequest
    \/ ListReposReturn
    \/ FetchStepWide
    \/ InitDb
    \/ UpsertStep
    \/ WriteCsv
    \/ PrintReport

SpecPayloads == Init /\ [][NextPayloads]_vars

(* ---------------- what the properties speak of ---------------- *)
Soft == {403, 404}

\* a totals dict as a mapping: the set of its items, whatever their order
Mapping(tot) == SeqToSet(tot)

\* the events fetch number i of this run handed to the aggregation loop
Returned(i) == fetch_traffic(fetched[i].kind, fetched[i])

\* the response this run received for (repo, kind)
ResponseFor(repo, kind) ==
    fetched[CHOOSE j \in 1..Len(fetched) : fetched[j].repo = repo /\ fetched[j].kind = kind]

Reverse(s) == [i \in 1..Len(s) |-> s[Len(s) + 1 - i]]

PermSeqs(s) == { [i \in 1..Len(s) |-> s[p[i]]] : p \in Permutations(1..Len(s)) }

Without(s, x) == SelectSeq(s, LAMBDA y : y # x)

RECURSIVE AggregateKinds(_, _, _, _)
AggregateKinds(tot, repo, kinds, rev) ==
    IF kinds = <<>> THEN tot
    ELSE LET evs == fetch_traffic(Head(kinds), ResponseFor(repo, Head(kinds)))
         IN AggregateKinds(
                Accumulate(tot, Head(kinds), IF rev THEN Reverse(evs) ELSE evs, cutoff),
                repo, Tail(kinds), rev)

RECURSIVE AggregateRepos(_, _, _, _)
\* The aggregation loop of fetch_daily run over the repositories rs and the
\* kinds ks in the order given, on the responses this run received.
AggregateRepos(tot, rs, ks, rev) ==
    IF rs = <<>> THEN tot
    ELSE AggregateRepos(AggregateKinds(tot, Head(rs), ks, rev), Tail(rs), ks, rev)

\* every fetch for repository b was answered 403 or 404
SoftOnly(b) == \A i \in 1..Len(fetched) : fetched[i].repo = b => fetched[i].status \in Soft

(* ---------------- C1 ---------------- *)
\* C1: a traffic fetch answered with a non-success status other than 403 or
\* 404 loses only its own contribution: no exception ends the run there, the
\* loop goes on to the next fetch and the run reaches persist and export.
C1_HardFailureIsolated ==
    \A i \in 1..Len(fetched) :
        (fetched[i].status >= 400 /\ fetched[i].status \notin Soft)
            => /\ exc = None
               /\ (pc = "fetch" => Len(fetched) = Len(Kinds) * (ri - 1) + (ki - 1))

(* ---------------- C2 ---------------- *)
\* C2: a 403 or 404 never ends the run in the fetch loop, and once the loop
\* is over, for every repository B whose fetches all answered 403 or 404,
\* the aggregate equals the aggregate of the same responses with B taken
\* out of the repository list.
C2_SoftFailureIsolated ==
    /\ (fetched # <<>> /\ Last(fetched).status \in Soft)
           => /\ ~(pc = "fetch" /\ exc # None)
              /\ Len(fetched) = Len(Kinds) * (ri - 1) + (ki - 1)
    /\ pc = "init_db" =>
           \A b \in SeqToSet(repos) :
               SoftOnly(b) =>
                   Mapping(totals) = Mapping(AggregateRepos(<<>>, Without(repos, b), Kinds, FALSE))

\* a run of two repositories: every fetch of one answered 403 or 404, the
\* other contributed, the loop is over
C2_Witness ==
    /\ pc = "init_db"
    /\ Len(repos) = 2
    /\ totals # <<>>
    /\ \E b \in SeqToSet(repos) :
           /\ SoftOnly(b)
           /\ \E i, j \in 1..Len(fetched) :
                  /\ fetched[i].repo = b /\ fetched[i].status = 403
                  /\ fetched[j].repo = b /\ fetched[j].status = 404

(* ---------------- C3 ---------------- *)
\* the stored row of date d, when the table holds exactly one
StoredRow(d) == CHOOSE r \in traffic : r.date = d

\* the persist loop of this run is over
Persisted == pc \in {"write_csv", "print_report"}

\* C3: once a run has persisted, the stored row of every date of that run's
\* aggregate is exactly the run's aggregate for that date, all four fields,
\* whatever an earlier run stored for it.
C3_RowsReplaced ==
    Persisted =>
        \A i \in 1..Len(totals) :
            /\ Cardinality({ r \in traffic : r.date = totals[i].day }) = 1
            /\ StoredRow(totals[i].day) = Row(totals[i].day, totals[i])

\* a second run has persisted a date for which the run before it, whose
\* export is still on disk, had aggregated other view counts
C3_Witness ==
    /\ pc = "write_csv"
    /\ runs = 2
    /\ csv # None
    /\ \E i \in 1..Len(totals), j \in 2..Len(csv) :
           /\ csv[j][1] = totals[i].day
           /\ csv[j][3] # totals[i].views
           /\ csv[j][3] > 0 /\ totals[i].views > 0

(* ---------------- C4 ---------------- *)
\* C4: for the store as it stands and every (date, aggregate) item of the
\* run, upsert applied twice gives the store upsert applied once gives, and
\* that store holds exactly one row for the date.
C4_UpsertIdempotent ==
    \A i \in 1..Len(totals) :
        LET d == totals[i].day
            once == upsert(traffic, d, totals[i])
        IN /\ upsert(once, d, totals[i]) = once
           /\ Cardinality({ r \in once : r.date = d }) = 1

\* an upsert of this run has been committed and the next one meets a row of
\* its date with other values
C4_Witness ==
    /\ pc = "upsert"
    /\ pi > 1
    /\ \E r \in traffic : r.date = totals[pi].day /\ r # Row(totals[pi].day, totals[pi])

(* ---------------- C5 ---------------- *)
RECURSIVE SumOn(_, _, _)
\* the sum of field f over the events of a list dated d
SumOn(events, d, f) ==
    IF events = <<>> THEN 0
    ELSE (IF Day(Head(events).timestamp) = d THEN Head(events)[f] ELSE 0)
             + SumOn(Tail(events), d, f)

RECURSIVE MetricSum(_, _, _, _)
\* the sum of field f over the events dated d that the fetches 1..n of the
\* metric kind returned, all repositories together
MetricSum(n, kind, d, f) ==
    IF n = 0 THEN 0
    ELSE (IF fetched[n].kind = kind THEN SumOn(Returned(n), d, f) ELSE 0)
             + MetricSum(n - 1, kind, d, f)

\* the fetches whose events have been folded into totals
Folded == IF exc # None /\ pc = "fetch" THEN Len(fetched) - 1 ELSE Len(fetched)

\* the days of the events returned so far and of the buckets of totals
DaysSeen ==
    { totals[i].day : i \in 1..Len(totals) }
        \cup UNION { { Day(Returned(i)[k].timestamp) : k \in 1..Len(Returned(i)) } :
                     i \in 1..Folded }

\* C5: in a run, for every date d at or after the cutoff, the bucket of d
\* exists exactly when some returned event is dated d, and its four fields
\* are the sums of count and uniques over the views events and over the
\* clones events dated d, of all repositories, a metric without event being 0.
C5_PerDaySums ==
    pc \in {"fetch", "init_db"} =>
        \A d \in DaysSeen :
            d >= cutoff =>
                LET n == Folded
                    any == \E i \in 1..n : \E k \in 1..Len(Returned(i)) :
                               Day(Returned(i)[k].timestamp) = d
                IN /\ HasDay(totals, d) <=> any
                   /\ HasDay(totals, d) =>
                          LET t == totals[IndexOf(totals, d)]
                          IN /\ t.views = MetricSum(n, "views", d, "count")
                             /\ t.unique_views = MetricSum(n, "views", d, "uniques")
                             /\ t.clones = MetricSum(n, "clones", d, "count")
                             /\ t.unique_clones = MetricSum(n, "clones", d, "uniques")

\* the loop is over, two repositories reported views on a day, one of them
\* clones, and the bucket of that day holds the sums
C5_Witness ==
    /\ pc = "init_db"
    /\ \E i \in 1..Len(totals) :
           /\ totals[i].views = 4 /\ totals[i].unique_views = 2
           /\ totals[i].clones = 2 /\ totals[i].unique_clones = 1

(* ---------------- C6 ---------------- *)
\* C6: in a run the cutoff is the current day minus 14; no bucket is dated
\* below it, and every returned event dated on the cutoff day is in the
\* aggregate.
C6_RetentionBoundary ==
    /\ pc # "menu" => cutoff = now - 14
    /\ \A i \in 1..Len(totals) : totals[i].day >= cutoff
    /\ \A i \in 1..Folded :
           \A k \in 1..Len(Returned(i)) :
               Day(Returned(i)[k].timestamp) = cutoff
                   => /\ HasDay(totals, cutoff)
                      /\ LET t == totals[IndexOf(totals, cutoff)]
                         IN t.views + t.clones >= Returned(i)[k].count

\* the loop is over after a fetch that returned an event on the cutoff day
\* and one on the day before
C6_Witness ==
    /\ pc = "init_db"
    /\ HasDay(totals, cutoff)
    /\ \E i \in 1..Len(fetched) :
           \E k, l \in 1..Len(Returned(i)) :
               /\ Day(Returned(i)[k].timestamp) = cutoff
               /\ Day(Returned(i)[l].timestamp) = cutoff - 1

(* ---------------- C7 ---------------- *)
\* C7: when the aggregation loop is over, the mapping it built is the one
\* the loop builds from the same responses for every order of the
\* repositories, both orders of the kinds, and the events of each list in
\* the order received or reversed.
C7_MergeCommutes ==
    pc = "init_db" =>
        LET m == Mapping(totals)
            ps == PermSeqs(repos)
            qs == PermSeqs(Kinds)
        IN \A rs \in ps, ks \in qs, rev \in BOOLEAN :
               Mapping(AggregateRepos(<<>>, rs, ks, rev)) = m

\* the loop is over for two repositories that answered differently: one
\* reported views only, the other clones only
C7_Witness ==
    /\ pc = "init_db"
    /\ Len(repos) = 2
    /\ Returned(1) # <<>> /\ Returned(2) = <<>>
    /\ Returned(3) = <<>> /\ Returned(4) # <<>>

(* ---------------- C8 ---------------- *)
\* C8: whatever non-success status a page request of list_repos gets, the
\* enumeration stops there without raising and list_repos is about to
\* return the repositories collected so far.
C8_PageFailureReturnsPartial ==
    (visited # <<>> /\ Last(visited).status # 200)
        => (exc = None /\ pc = "list_return")

(* ---------------- C9 ---------------- *)
\* C9: a run whose aggregate is empty (no repository, or no event inside the
\* window) ends without raising: no row is upserted, the export holds the
\* header alone, and print_report does not end the process.
C9_EmptyRunCompletes ==
    (pc = "print_report" /\ totals = <<>>)
        => (exc = None /\ csv = <<Header>>)

(* ---------------- C10 ---------------- *)
\* C10 as stated: once a run has persisted, every row of the store is dated
\* at or after that run's cutoff.
C10_StoreWithinWindow ==
    Persisted => \A r \in traffic : r.date >= cutoff

\* C10 as amended: every row a step inserts or replaces is dated at or
\* after the cutoff of the run that takes the step, the current day minus
\* 14; rows stored by earlier runs stay, however old.
C10_WrittenRowsWithinWindow ==
    [][ \A r \in traffic' : r \notin traffic => (r.date >= cutoff /\ cutoff = now - 14) ]_vars

\* a later run, a day later, has persisted rows inside its window next to a
\* row of an earlier run that is older than its cutoff
C10_Witness ==
    /\ Persisted
    /\ runs >= 2
    /\ \E r \in traffic : r.date < cutoff
    /\ \E i \in 1..Len(totals) : Row(totals[i].day, totals[i]) \in traffic

(* ---------------- C11 ---------------- *)
\* a stored row as a line of the export
StoreCsvRow(r) == << r.date, DayOfWeek(r.date), r.views, r.unique_views, r.clones, r.unique_clones >>

RECURSIVE StoreSeries(_)
\* the rows of the store as export lines, ascending by date
StoreSeries(rows) ==
    IF rows = {} THEN <<>>
    ELSE LET m == CHOOSE r \in rows : \A x \in rows : r.date <= x.date
         IN <<StoreCsvRow(m)>> \o StoreSeries(rows \ {m})

\* C11: back at the menu after a completed run, the data rows of the export
\* are the rows of the store, one per stored date with the same values, in
\* ascending date order.
C11_ExportEqualsStore ==
    (pc = "menu" /\ runs >= 1 /\ csv # None) => Tail(csv) = StoreSeries(traffic)

(* ---------------- C12 ---------------- *)
\* C12: when write_csv has run, the export holds the header and one row per
\* date of this run's aggregate, each with that date's values, strictly
\* ascending by date; nothing else, so no row of an earlier export is left.
C12_ExportFidelity ==
    pc = "print_report" =>
        /\ csv[1] = Header
        /\ Len(csv) - 1 = Cardinality({ totals[i].day : i \in 1..Len(totals) })
        /\ \A j \in 2..Len(csv) : \E i \in 1..Len(totals) : csv[j] = CsvRow(totals[i])
        /\ \A j \in 2..(Len(csv) - 1) : csv[j][1] < csv[j + 1][1]

\* a second run, a day after the first, has written its export: two dates,
\* aggregated in another order than ascending, the older of them newer than
\* the oldest stored row, which the export before it held
C12_Witness ==
    /\ pc = "print_report"
    /\ runs = 2
    /\ Len(totals) = 2
    /\ totals[1].day > totals[2].day
    /\ \E r \in traffic : r.date < totals[2].day

(* ---------------- C13 ---------------- *)
\* C13: list_repos requests a page only while it holds a next link, stops
\* when a page carries none, and requests no page URL twice, whatever next
\* links the pages carry.
C13_NoPageRevisited ==
    /\ \A i, j \in 1..Len(visited) : i # j => visited[i].url # visited[j].url
    /\ \A i \in 1..Len(visited) : visited[i].url # None

(* ---------------- C20 ---------------- *)
\* C20: no step deletes a row: every stored date stays stored, and a row
\* changes only in the upsert of its own date, so the row of a date that the
\* run's aggregate does not hold is after the run what it was before.
C20_UntouchedRowsKept ==
    [][ \A r \in traffic :
            /\ \E q \in traffic' : q.date = r.date
            /\ r \in traffic' \/ (pc = "upsert" /\ HasDay(totals, r.date)
                                    /\ r.date = totals[pi].day) ]_vars

\* a later run has persisted its rows and the store still holds a row of a
\* date that this run did not aggregate
C20_Witness ==
    /\ pc = "write_csv"
    /\ runs >= 2
    /\ totals # <<>>
    /\ \E r \in traffic : ~HasDay(totals, r.date)

(* ---------------- C15 ---------------- *)
\* C15: in every state the store holds at most one row per date, and the
\* four numbers of every row are >= 0 (the events of the listings all have
\* count and uniques >= 0).
C15_RowsNonNegativeUnique ==
    \A r \in traffic :
        /\ r.views >= 0 /\ r.unique_views >= 0
        /\ r.clones >= 0 /\ r.unique_clones >= 0
        /\ \A q \in traffic : q.date = r.date => q = r

\* a second run, a day after the first, has upserted its two dates into a
\* store that held two: one of them met the row the first run stored for it
C15_Witness ==
    /\ pc = "write_csv"
    /\ runs = 2
    /\ Len(totals) = 2
    /\ Cardinality(traffic) = 3
    /\ \E r \in traffic : r.views > 0 /\ r.clones > 0

(* ---------------- C19 ---------------- *)
\* the steps of a run in which it talks to the API
Fetching == pc \in {"list", "list_return", "fetch"}

\* the steps of a run from init_db to the report
Writing == pc \in {"init_db", "upsert", "write_csv", "print_report"}

\* C19: while a run enumerates repositories and fetches traffic no step
\* changes the store or the export, an exception included, and once the run
\* has gone on to init_db it makes no further request: so a run that an
\* exception ends during enumeration or fetching leaves both files as they
\* were before it.
C19_NoWriteBeforeFetchesFinish ==
    [][ /\ Fetching => UNCHANGED << tableExists, traffic, csv >>
        /\ Writing => (pc' = "menu" \/ Writing')
        /\ Writing => (visited' = visited /\ Len(fetched') <= Len(fetched)) ]_vars

\* a later run has aggregated events and then died of a hard failure in the
\* fetch loop, over a store and an export that an earlier run had written
C19_Witness ==
    /\ pc = "fetch"
    /\ exc = "HTTPError"
    /\ runs >= 2
    /\ totals # <<>>
    /\ traffic # {}
    /\ csv # None

(* ---------------- C14 ---------------- *)
\* C14: a dashboard request leaves the store as it found it: whether table
\* traffic exists, and every row, also on a store no run has initialised.
C14_DashboardReadOnly ==
    [][ Dashboard => UNCHANGED << tableExists, traffic >> ]_vars

(* ---------------- C16 ---------------- *)
RECURSIVE InsertRanked(_, _)
\* e put into a list ranked by count descending, behind the entries of its count
InsertRanked(ranked, e) ==
    IF ranked = <<>> THEN <<e>>
    ELSE IF Head(ranked).count >= e.count
         THEN <<Head(ranked)>> \o InsertRanked(Tail(ranked), e)
         ELSE <<e>> \o ranked

RECURSIVE Ranked(_)
\* the entries by count descending, ties in the order of the response
Ranked(entries) ==
    IF entries = <<>> THEN <<>>
    ELSE InsertRanked(Ranked(SubSeq(entries, 1, Len(entries) - 1)), Last(entries))

\* the first TopN of the ranked entries
Top(entries) ==
    LET r == Ranked(entries)
    IN SubSeq(r, 1, IF Len(r) < TopN THEN Len(r) ELSE TopN)

\* C16: a drill-down whose request succeeded ends without exception with at
\* most 10 entries, ranked by count descending and ties in response order;
\* one answered 403 or 404 ends without exception with no entry ("No data").
C16_TopEntries ==
    \A i \in 1..Len(drilled) :
        /\ drilled[i].status = 200 =>
               /\ drilled[i].result.exc = None
               /\ drilled[i].result.rows = Top(drilled[i].blob)
        /\ drilled[i].status \in Soft =>
               /\ drilled[i].result.exc = None
               /\ drilled[i].result.rows = <<>>

(* ---------------- C17 ---------------- *)
\* the line a dashboard read returns for a stored row
Line(r) == << r.date, r.views, r.clones >>

Listed(i) ==
    IF fetched[i].status = 200 THEN BlobGet(fetched[i].blob, fetched[i].kind) ELSE <<>>

RECURSIVE ListedSum(_, _, _, _)
\* the sum of field f over the events dated d that the payloads 1..n list
\* under kind in answer to a request for kind
ListedSum(n, kind, d, f) ==
    IF n = 0 THEN 0
    ELSE (IF fetched[n].kind = kind THEN SumOn(Listed(n), d, f) ELSE 0)
             + ListedSum(n - 1, kind, d, f)

\* C18: fetch_traffic(kind, repo) returns the events the payload lists under
\* kind and no others, so each bucket counts as views only events listed
\* under "views" in answer to a views request, and as clones only events
\* listed under "clones" in answer to a clones request.
C18_MetricSeparation ==
    pc \in {"fetch", "init_db"} =>
        /\ \A i \in 1..Len(fetched) : Returned(i) = Listed(i)
        /\ \A j \in 1..Len(totals) :
               /\ totals[j].views = ListedSum(Folded, "views", totals[j].day, "count")
               /\ totals[j].clones = ListedSum(Folded, "clones", totals[j].day, "count")

====
